---------------------------- MODULE Spec2Model ----------------------------
(***************************************************************************)
(* Model of calculate_stamp_duty (src/src/mcp.py, lines 198-286), the      *)
(* tiered stamp-duty calculator of the tool host.                          *)
(*                                                                         *)
(* Numbers.  Python computes in binary floating point; the model computes  *)
(* in exact decimal fixed point:                                           *)
(*   - money (prices, thresholds, band amounts, the rounded total) is an   *)
(*     integer number of pence (1/100 of a pound);                         *)
(*   - a rate is an integer number of percent (0.02 is 2);                 *)
(*   - an unrounded duty (band_duty, stamp_duty) is amount * rate, an      *)
(*     integer number of 1/100 of a penny (1/10000 of a pound).            *)
(* round(x, 2) is modelled by Round2, which takes 1/100 pence to pence.    *)
(* The representation error of binary floats (about 1e-10 here) is left    *)
(* out; it can change the result of round only when the exact value lies   *)
(* on a half penny, which no price within the bounds produces.             *)
(*                                                                         *)
(* The 'band' string of a breakdown entry, f'{lower:,} - {upper:,}', is    *)
(* modelled by the two numbers it is rendered from (band_lo, band_hi).     *)
(*                                                                         *)
(* The second part models the form of src/app.py: update_tool_interface,   *)
(* run_selected_tool and MCPToolInterface.call_tool_sync over the tools    *)
(* that src/src/mcp.py registers.  Widget indices are those of the source  *)
(* (0..7 for the textboxes and the radios, 0..15 for *args).  The print    *)
(* calls of call_tool_sync are taken to succeed.                           *)
(***************************************************************************)
EXTENDS Integers, Sequences, FiniteSets

VARIABLES
    calls,    \* calls[c]: the frame (arguments, locals, position, result) of call c
    ui        \* the form of src/app.py: its widgets, the last output, the last tool call

vars == << calls, ui >>

\* ------------------------------------------------------------------ bounds

\* Prices are taken within this many pence of 0 and of every band threshold.
MaxPenceOffset == 2

\* The user changes the dropdown or the value of a shown widget at most this
\* many times in all.
MaxUserSteps == 3

\* ------------------------------------------------------------ program data

Pounds(n) == n * 100

\* float('inf'), the upper bound of the top band: above every price of the model.
Inf == 2147483647

\* Variant of standard_bands: the second band is taxed at 1%.
standard_bands_one_percent ==
    << [threshold |-> Pounds(125000),  rate |-> 0],
       [threshold |-> Pounds(250000),  rate |-> 1],
       [threshold |-> Pounds(925000),  rate |-> 5],
       [threshold |-> Pounds(1500000), rate |-> 10],
       [threshold |-> Inf,             rate |-> 12] >>

standard_bands ==
    << [threshold |-> Pounds(125000),  rate |-> 0],
       [threshold |-> Pounds(250000),  rate |-> 2],
       [threshold |-> Pounds(925000),  rate |-> 5],
       [threshold |-> Pounds(1500000), rate |-> 10],
       [threshold |-> Inf,             rate |-> 12] >>

\* Variant of first_time_buyer_bands: the band from 300000 to 500000 is taxed
\* at 10%.
first_time_buyer_bands_ten_percent ==
    << [threshold |-> Pounds(300000),  rate |-> 0],
       [threshold |-> Pounds(500000),  rate |-> 10],
       [threshold |-> Pounds(925000),  rate |-> 5],
       [threshold |-> Pounds(1500000), rate |-> 10],
       [threshold |-> Inf,             rate |-> 12] >>

first_time_buyer_bands ==
    << [threshold |-> Pounds(300000),  rate |-> 0],
       [threshold |-> Pounds(500000),  rate |-> 5],
       [threshold |-> Pounds(925000),  rate |-> 5],
       [threshold |-> Pounds(1500000), rate |-> 10],
       [threshold |-> Inf,             rate |-> 12] >>

additional_property_surcharge == 5

\* ----------------------------------------------------------------- inputs

CallIds == {1, 2}

FiniteThresholds ==
    { standard_bands[k].threshold : k \in 1..(Len(standard_bands) - 1) } \cup
    { first_time_buyer_bands[k].threshold : k \in 1..(Len(first_time_buyer_bands) - 1) }

\* Offsets from 0 and from each threshold: single pence, and one whole pound.
Offsets == ((0 - MaxPenceOffset)..MaxPenceOffset) \cup {0 - Pounds(1), Pounds(1)}

Prices == { t + d : t \in FiniteThresholds \cup {0}, d \in Offsets }

\* What a caller passes as property_price: a number, or a value float() rejects.
PriceArgs ==
    { [numeric |-> TRUE, value |-> p] : p \in Prices } \cup
    { [numeric |-> FALSE, value |-> 0] }

\* ---------------------------------------------------------------- helpers

Min(a, b) == IF a <= b THEN a ELSE b

\* Variant of Round2: the total cut to whole pence, as int(x * 100) / 100 would.
Round2Truncate(u) == u \div 100

\* round(x, 2) on an exact decimal: 1/100 pence to the nearest penny, halves to even.
Round2(u) ==
    LET q == u \div 100
        r == u % 100
    IN  IF r < 50 THEN q
        ELSE IF r > 50 THEN q + 1
        ELSE IF q % 2 = 0 THEN q ELSE q + 1

NoResult == [kind |-> "none"]

IdleFrame ==
    [ pc |-> "idle",
      arg |-> [numeric |-> TRUE, value |-> 0],
      property_price |-> 0,
      is_first_time_buyer |-> FALSE,
      is_additional_property |-> FALSE,
      bands |-> << >>,
      stamp_duty |-> 0,
      breakdown |-> << >>,
      remaining_price |-> 0,
      previous_threshold |-> 0,
      i |-> 0,
      result |-> NoResult ]

\* ------------------------------------------------- calculate_stamp_duty

\* Variant of SelectBands: the limit excluded, price < 500000.
SelectBandsStrictLimit(ftb, price) ==
    IF ftb /\ price < Pounds(500000)
    THEN first_time_buyer_bands
    ELSE standard_bands

\* Variant of SelectBands: the flag alone decides, the limit is not tested.
SelectBandsNoLimit(ftb, price) ==
    IF ftb THEN first_time_buyer_bands ELSE standard_bands

\* Variant of SelectBands: the comparison with the limit turned round.
SelectBandsFlipped(ftb, price) ==
    IF ftb /\ price >= Pounds(500000)
    THEN first_time_buyer_bands
    ELSE standard_bands

\* Variant of SelectBands: the limit is the upper bound of the third band.
SelectBandsLimit925000(ftb, price) ==
    IF ftb /\ price <= Pounds(925000)
    THEN first_time_buyer_bands
    ELSE standard_bands

\* Line 237: which table the call taxes with.
SelectBands(ftb, price) ==
    IF ftb /\ price <= Pounds(500000)
    THEN first_time_buyer_bands
    ELSE standard_bands

\* Variant of EnterFrame: breakdown is not a fresh list but one kept between
\* calls (a module-level list, or a mutable default argument): a call starts with
\* the entries the first call has listed so far.
EnterFrameKeepsBreakdown(arg, ftb, add) ==
    [ pc |-> "loop",
      arg |-> arg,
      property_price |-> arg.value,
      is_first_time_buyer |-> ftb,
      is_additional_property |-> add,
      bands |-> SelectBands(ftb, arg.value),
      stamp_duty |-> 0,
      breakdown |-> calls[1].breakdown,
      remaining_price |-> arg.value,
      previous_threshold |-> 0,
      i |-> 1,
      result |-> NoResult ]

\* Lines 220-245: the conversion of the price, the choice of the table and the
\* initial values of the accumulators, for a price float() accepts.
EnterFrame(arg, ftb, add) ==
    [ pc |-> "loop",
      arg |-> arg,
      property_price |-> arg.value,
      is_first_time_buyer |-> ftb,
      is_additional_property |-> add,
      bands |-> SelectBands(ftb, arg.value),
      stamp_duty |-> 0,
      breakdown |-> << >>,
      remaining_price |-> arg.value,
      previous_threshold |-> 0,
      i |-> 1,
      result |-> NoResult ]

\* Line 220 raising: float(property_price) fails, nothing else has run.
RaisedFrame(arg, ftb, add) ==
    [ IdleFrame EXCEPT !.pc = "raised", !.arg = arg,
                       !.is_first_time_buyer = ftb,
                       !.is_additional_property = add,
                       !.result = [kind |-> "ValueError"] ]

\* Variant of BandAmount: the band's width, not capped by what is left.
BandAmountNoMin(f) ==
    f.bands[f.i].threshold - f.previous_threshold

\* Variant of BandAmount: the band stops one penny short of its upper bound,
\* as if the bound belonged to the next band.
BandAmountExclusiveUpper(f) ==
    Min(f.remaining_price, f.bands[f.i].threshold - f.previous_threshold - 1)

\* Line 252.
BandAmount(f) ==
    Min(f.remaining_price, f.bands[f.i].threshold - f.previous_threshold)

\* Variant of BandDuty: the surcharge only on bands whose own rate is not zero.
BandDutyTaxedBandsOnly(f, band_amount) ==
    band_amount * f.bands[f.i].rate
    + (IF f.is_additional_property /\ f.bands[f.i].rate > 0
       THEN band_amount * additional_property_surcharge
       ELSE 0)

\* Variant of BandDuty: the surcharge on the whole price, charged once with the
\* first band, instead of on each band's slice.
BandDutyWholePrice(f, band_amount) ==
    band_amount * f.bands[f.i].rate
    + (IF f.is_additional_property /\ f.i = 1
       THEN f.property_price * additional_property_surcharge
       ELSE 0)

\* Variant of BandDuty: slab duty.  The whole price is taxed at the rate of the
\* one band it falls in, a price on a threshold falling in the band above it.
BandDutySlab(f, band_amount) ==
    IF f.previous_threshold <= f.property_price
       /\ f.property_price < f.bands[f.i].threshold
    THEN f.property_price * f.bands[f.i].rate
    ELSE 0

\* Lines 253-258: the duty of the slice, the surcharge on the same slice included.
BandDuty(f, band_amount) ==
    band_amount * f.bands[f.i].rate
    + (IF f.is_additional_property
       THEN band_amount * additional_property_surcharge
       ELSE 0)

\* Lines 263-265.
RateDisplay(f) ==
    f.bands[f.i].rate
    + (IF f.is_additional_property THEN additional_property_surcharge ELSE 0)

\* Line 248: the loop stops before a band when nothing is left to tax.
NothingLeft(f) == f.remaining_price <= 0

\* Line 262: a slice is listed only when it is not empty.
ListsSlice(band_amount) == band_amount > 0

\* Variant of ReachedPrice: a threshold equal to the price does not end the loop.
ReachedPriceStrict(f) == f.bands[f.i].threshold > f.property_price

\* Variant of ReachedPrice: the threshold is compared with what is left to tax.
ReachedPriceUsesRemaining(f) == f.bands[f.i].threshold >= f.remaining_price

\* Line 277: the band just taxed reaches the price.
ReachedPrice(f) == f.bands[f.i].threshold >= f.property_price

\* Variant of LoopBody: stamp_duty is not a local but one accumulator shared by
\* the calls that are in their loop; a call on its own computes as before.
LoopBodySharedDuty(f) ==
    LET band_amount == BandAmount(f)
        band_duty   == BandDuty(f, band_amount)
        shared == (IF calls[1].pc = "loop" THEN calls[1].stamp_duty ELSE 0)
                  + (IF calls[2].pc = "loop" THEN calls[2].stamp_duty ELSE 0)
        entry == [ band_lo |-> f.previous_threshold,
                   band_hi |-> Min(f.bands[f.i].threshold, f.property_price),
                   amount  |-> band_amount,
                   rate    |-> RateDisplay(f),
                   duty    |-> band_duty ]
    IN  [ f EXCEPT
            !.stamp_duty = shared + band_duty,
            !.breakdown = IF ListsSlice(band_amount)
                          THEN Append(f.breakdown, entry)
                          ELSE f.breakdown,
            !.remaining_price = f.remaining_price - band_amount,
            !.previous_threshold = f.bands[f.i].threshold,
            !.pc = IF ReachedPrice(f) \/ f.i = Len(f.bands)
                   THEN "return" ELSE "loop",
            !.i = IF ReachedPrice(f) \/ f.i = Len(f.bands)
                  THEN f.i ELSE f.i + 1 ]

\* Variant of LoopBody: the slice range of an entry ends at the threshold of the
\* band, not at min(threshold, property_price).
LoopBodyRangeToThreshold(f) ==
    LET band_amount == BandAmount(f)
        band_duty   == BandDuty(f, band_amount)
        entry == [ band_lo |-> f.previous_threshold,
                   band_hi |-> f.bands[f.i].threshold,
                   amount  |-> band_amount,
                   rate    |-> RateDisplay(f),
                   duty    |-> band_duty ]
    IN  [ f EXCEPT
            !.stamp_duty = f.stamp_duty + band_duty,
            !.breakdown = IF ListsSlice(band_amount)
                          THEN Append(f.breakdown, entry)
                          ELSE f.breakdown,
            !.remaining_price = f.remaining_price - band_amount,
            !.previous_threshold = f.bands[f.i].threshold,
            !.pc = IF ReachedPrice(f) \/ f.i = Len(f.bands)
                   THEN "return" ELSE "loop",
            !.i = IF ReachedPrice(f) \/ f.i = Len(f.bands)
                  THEN f.i ELSE f.i + 1 ]

\* Variant of LoopBody: the rate shown in the entry is stored back into the band
\* of the table.
LoopBodyStoresDisplayedRate(f) ==
    LET band_amount == BandAmount(f)
        band_duty   == BandDuty(f, band_amount)
        entry == [ band_lo |-> f.previous_threshold,
                   band_hi |-> Min(f.bands[f.i].threshold, f.property_price),
                   amount  |-> band_amount,
                   rate    |-> RateDisplay(f),
                   duty    |-> band_duty ]
    IN  [ f EXCEPT
            !.bands[f.i].rate = RateDisplay(f),
            !.stamp_duty = f.stamp_duty + band_duty,
            !.breakdown = IF ListsSlice(band_amount)
                          THEN Append(f.breakdown, entry)
                          ELSE f.breakdown,
            !.remaining_price = f.remaining_price - band_amount,
            !.previous_threshold = f.bands[f.i].threshold,
            !.pc = IF ReachedPrice(f) \/ f.i = Len(f.bands)
                   THEN "return" ELSE "loop",
            !.i = IF ReachedPrice(f) \/ f.i = Len(f.bands)
                  THEN f.i ELSE f.i + 1 ]

\* Lines 252-278: one pass through the loop body for band f.i.
LoopBody(f) ==
    LET band_amount == BandAmount(f)
        band_duty   == BandDuty(f, band_amount)
        entry == [ band_lo |-> f.previous_threshold,
                   band_hi |-> Min(f.bands[f.i].threshold, f.property_price),
                   amount  |-> band_amount,
                   rate    |-> RateDisplay(f),
                   duty    |-> band_duty ]
    IN  [ f EXCEPT
            !.stamp_duty = f.stamp_duty + band_duty,
            !.breakdown = IF ListsSlice(band_amount)
                          THEN Append(f.breakdown, entry)
                          ELSE f.breakdown,
            !.remaining_price = f.remaining_price - band_amount,
            !.previous_threshold = f.bands[f.i].threshold,
            !.pc = IF ReachedPrice(f) \/ f.i = Len(f.bands)
                   THEN "return" ELSE "loop",
            !.i = IF ReachedPrice(f) \/ f.i = Len(f.bands)
                  THEN f.i ELSE f.i + 1 ]

\* Variant of LoopIteration: no test that something is left and no test that the
\* slice is not empty; every band visited is listed.
LoopIterationUnguarded(f) ==
    LET band_amount == BandAmount(f)
        band_duty   == BandDuty(f, band_amount)
        entry == [ band_lo |-> f.previous_threshold,
                   band_hi |-> Min(f.bands[f.i].threshold, f.property_price),
                   amount  |-> band_amount,
                   rate    |-> RateDisplay(f),
                   duty    |-> band_duty ]
    IN  [ f EXCEPT
            !.stamp_duty = f.stamp_duty + band_duty,
            !.breakdown = Append(f.breakdown, entry),
            !.remaining_price = f.remaining_price - band_amount,
            !.previous_threshold = f.bands[f.i].threshold,
            !.pc = IF ReachedPrice(f) \/ f.i = Len(f.bands)
                   THEN "return" ELSE "loop",
            !.i = IF ReachedPrice(f) \/ f.i = Len(f.bands)
                  THEN f.i ELSE f.i + 1 ]

\* Variant of LoopIteration: when nothing is left the loop is not left; the test
\* at its top is taken again, with no band consumed.
LoopIterationStalls(f) ==
    IF NothingLeft(f) THEN f ELSE LoopBody(f)

\* Lines 247-278: one iteration of the for loop, from the test at its top.
LoopIteration(f) ==
    IF NothingLeft(f) THEN [f EXCEPT !.pc = "return"] ELSE LoopBody(f)

\* Variant of ReturnValue: is_first_time_buyer reports whether the first-time-buyer
\* table was taxed with, not the flag passed in.
ReturnValueReportsTable(f) ==
    [ kind |-> "result",
      total_stamp_duty |-> Round2(f.stamp_duty),
      property_price |-> f.property_price,
      is_first_time_buyer |-> (f.bands = first_time_buyer_bands),
      is_additional_property |-> f.is_additional_property,
      breakdown |-> f.breakdown ]

\* Variant of ReturnValue: the breakdown is left out of the returned dict.
ReturnValueWithoutBreakdown(f) ==
    [ kind |-> "result",
      total_stamp_duty |-> Round2(f.stamp_duty),
      property_price |-> f.property_price,
      is_first_time_buyer |-> f.is_first_time_buyer,
      is_additional_property |-> f.is_additional_property ]

\* Lines 280-286.
ReturnValue(f) ==
    [ kind |-> "result",
      total_stamp_duty |-> Round2(f.stamp_duty),
      property_price |-> f.property_price,
      is_first_time_buyer |-> f.is_first_time_buyer,
      is_additional_property |-> f.is_additional_property,
      breakdown |-> f.breakdown ]

\* ---------------------------------------------------------------- actions

\* ------------------------------------------------------------ src/app.py

\* A parameter of a tool's input schema: its name, its JSON type (lower case, as
\* load_tools leaves it) and whether 'required' lists it.
Param(name, type, required) == [name |-> name, type |-> type, required |-> required]

\* The tools src/src/mcp.py registers, with the parameters in the order of the
\* signature (the order of inputSchema['properties']).  A parameter without a
\* default is required; the two flags of calculate_stamp_duty default to False.
ToolSchemas ==
    [ interest_calculator |->
          << Param("principal", "number", TRUE) >>,
      monthly_payment |->
          << Param("principal", "number", TRUE),
             Param("number_of_years", "integer", TRUE) >>,
      search_internet |->
          << Param("url", "string", TRUE),
             Param("task", "string", TRUE) >>,
      get_agency_review |->
          << Param("name", "string", TRUE) >>,
      calculate_stamp_duty |->
          << Param("property_price", "integer", TRUE),
             Param("is_first_time_buyer", "boolean", FALSE),
             Param("is_additional_property", "boolean", FALSE) >>,
      home_buying_tax_calculator_browser_use |->
          << Param("region", "string", TRUE),
             Param("property_type", "string", TRUE),
             Param("day", "string", TRUE),
             Param("month", "string", TRUE),
             Param("year", "string", TRUE),
             Param("purchaser_type", "string", TRUE),
             Param("purchaser_purpose", "string", TRUE),
             Param("more_properties", "boolean", TRUE),
             Param("replace", "boolean", TRUE),
             Param("First_time_Buyer", "boolean", TRUE),
             Param("main_residence", "boolean", TRUE),
             Param("price", "integer", TRUE) >> ]

\* mcp_interface.tools after load_tools: the names of the loaded tools.
ToolNames == DOMAIN ToolSchemas

\* Line 56: tool.name.replace('_', ' ').title().
DisplayName(name) ==
    CASE name = "interest_calculator" -> "Interest Calculator"
      [] name = "monthly_payment" -> "Monthly Payment"
      [] name = "search_internet" -> "Search Internet"
      [] name = "get_agency_review" -> "Get Agency Review"
      [] name = "calculate_stamp_duty" -> "Calculate Stamp Duty"
      [] name = "home_buying_tax_calculator_browser_use"
             -> "Home Buying Tax Calculator Browser Use"

\* Line 60: display_name.lower().replace(' ', '_').
LowerUnderscore(display_name) ==
    CASE display_name = "Interest Calculator" -> "interest_calculator"
      [] display_name = "Monthly Payment" -> "monthly_payment"
      [] display_name = "Search Internet" -> "search_internet"
      [] display_name = "Get Agency Review" -> "get_agency_review"
      [] display_name = "Calculate Stamp Duty" -> "calculate_stamp_duty"
      [] display_name = "Home Buying Tax Calculator Browser Use"
             -> "home_buying_tax_calculator_browser_use"
      [] display_name = "Stamp Duty" -> "stamp_duty"
      [] OTHER -> display_name

\* Lines 58-64: the name of the tool a display name stands for, or "None".
get_tool_by_display_name(display_name) ==
    IF LowerUnderscore(display_name) \in ToolNames
    THEN LowerUnderscore(display_name)
    ELSE "None"

\* The dropdown's choices (line 256) and what else a caller of the handlers may
\* pass as selected_tool_name: None, the empty string, a name of no tool.
DisplayNames == { DisplayName(n) : n \in ToolNames }

SelectedNames == DisplayNames \cup { "None", "", "Stamp Duty" }

\* Indices of the 8 textboxes and of the 8 radios.
Slots == 0..7

num_text_inputs == 8

\* No call of call_tool_sync, and a call of it with a tool name and the argument
\* map as the list of its items.
NotInvoked == [called |-> FALSE, tool_name |-> "", tool_args |-> << >>]

Invoked(tool_name, tool_args) ==
    [called |-> TRUE, tool_name |-> tool_name, tool_args |-> tool_args]

\* Lines 255-290: the page as built.  The dropdown shows the first tool, every
\* parameter widget and the run button are hidden, a textbox holds "", a radio
\* holds None; nothing has run.  last, selected, args, read, invoked and
\* tool_outcome record the last call of a handler: which one, its inputs, the
\* positions of *args it read, the call of call_tool_sync made and how the tool
\* call ended; output is what the handler returned (shown in output_json).
InitialUi ==
    [ tool_dropdown |-> DisplayName("interest_calculator"),
      text_visible  |-> [i \in Slots |-> FALSE],
      radio_visible |-> [i \in Slots |-> FALSE],
      text_value    |-> [i \in Slots |-> ""],
      radio_value   |-> [i \in Slots |-> "None"],
      run_button    |-> FALSE,
      description   |-> "Select a tool to see its description",
      steps         |-> 0,
      last          |-> "none",
      selected      |-> "None",
      args          |-> [k \in 0..15 |-> ""],
      read          |-> << >>,
      invoked       |-> NotInvoked,
      tool_outcome  |-> "none",
      output        |-> [kind |-> "none"] ]

\* Lines 126 and 194: the parameter is shown as, and read from, a radio.
IsBoolean(type) == type = "boolean" \/ type = "bool"

\* Line 83 and line 170: 'not selected_tool_name' (None or the empty string).
NotSelected(selected_tool_name) ==
    selected_tool_name = "None" \/ selected_tool_name = ""

\* Parameter i (from 0) of a tool, and the number of its parameters.
ParamOf(tool, i) == ToolSchemas[tool][i + 1]

NumParams(tool) == Len(ToolSchemas[tool])

\* Lines 132, 138 and 151: the value a widget is given when it is shown.  No
\* tool has a default on a numeric or string parameter; the defaults of the
\* boolean parameters are False or absent.
ShownValue(type) ==
    CASE IsBoolean(type) -> "False"
      [] type = "integer" -> "0"
      [] type = "number" -> "0.0"
      [] OTHER -> ""

\* Lines 81-166: the updates update_tool_interface returns, applied to the page.
\* gr.update(visible=False) hides a widget and leaves its value.
update_tool_interface(u, selected_tool_name) ==
    LET tool == get_tool_by_display_name(selected_tool_name)
        hidden == [i \in Slots |-> FALSE]
        has(i) == i < NumParams(tool)
        radio(i) == has(i) /\ IsBoolean(ParamOf(tool, i).type)
        text(i) == has(i) /\ ~IsBoolean(ParamOf(tool, i).type)
    IN  IF NotSelected(selected_tool_name) \/ ToolNames = {}
        THEN [ u EXCEPT !.text_visible = hidden,
                        !.radio_visible = hidden,
                        !.description = "Select a tool to see its description",
                        !.run_button = FALSE ]
        ELSE IF tool = "None"
        THEN [ u EXCEPT !.text_visible = hidden,
                        !.radio_visible = hidden,
                        !.description = "Tool not found",
                        !.run_button = FALSE ]
        ELSE [ u EXCEPT
                 !.text_visible = [i \in Slots |-> text(i)],
                 !.radio_visible = [i \in Slots |-> radio(i)],
                 !.text_value = [i \in Slots |->
                                    IF text(i) THEN ShownValue(ParamOf(tool, i).type)
                                    ELSE u.text_value[i]],
                 !.radio_value = [i \in Slots |->
                                    IF radio(i) THEN ShownValue(ParamOf(tool, i).type)
                                    ELSE u.radio_value[i]],
                 !.description = tool,
                 !.run_button = TRUE ]

\* A value of tool_args: an int, a float, a str or a bool.
IntValue(n) == [type |-> "int", n |-> n, s |-> "", b |-> FALSE]

FloatValue(n) == [type |-> "float", n |-> n, s |-> "", b |-> FALSE]

StrValue(s) == [type |-> "str", n |-> 0, s |-> s, b |-> FALSE]

BoolValue(b) == [type |-> "bool", n |-> 0, s |-> "", b |-> b]

\* str.strip() on the texts of the model: " " is the text of blanks only.
Strip(s) == IF s = " " THEN "" ELSE s

\* float(s): the number a text denotes (Inf for "inf"), or ValueError.
FloatOf(s) ==
    CASE s = "0" -> [ok |-> TRUE, n |-> 0]
      [] s = "0.0" -> [ok |-> TRUE, n |-> 0]
      [] s = "12" -> [ok |-> TRUE, n |-> 12]
      [] s = "inf" -> [ok |-> TRUE, n |-> Inf]
      [] OTHER -> [ok |-> FALSE, n |-> 0]

\* Variant of ConvertValue: a text that is no number counts as 0, like an empty one.
ConvertValueDefaultsOnError(type, arg_value_from_ui) ==
    LET s == arg_value_from_ui
        ok(v) == [status |-> "ok", value |-> v]
        fails(e) == [status |-> e, value |-> StrValue("")]
    IN  IF IsBoolean(type) THEN ok(BoolValue(s = "True"))
        ELSE IF type = "integer" THEN
            IF Strip(s) = "" \/ ~FloatOf(s).ok THEN ok(IntValue(0))
            ELSE IF FloatOf(s).n = Inf THEN fails("OverflowError")
            ELSE ok(IntValue(FloatOf(s).n))
        ELSE IF type = "number" THEN
            IF Strip(s) = "" \/ ~FloatOf(s).ok THEN ok(FloatValue(0))
            ELSE ok(FloatValue(FloatOf(s).n))
        ELSE ok(StrValue(s))

\* Lines 211-226: the conversion of one UI value.  status "ok" with the value,
\* "ValueError" (caught at line 225), or "OverflowError" (int() of an infinite
\* float; not caught at line 225, caught at line 232).
ConvertValue(type, arg_value_from_ui) ==
    LET s == arg_value_from_ui
        ok(v) == [status |-> "ok", value |-> v]
        fails(e) == [status |-> e, value |-> StrValue("")]
    IN  IF IsBoolean(type) THEN ok(BoolValue(s = "True"))
        ELSE IF type = "integer" THEN
            IF Strip(s) = "" THEN ok(IntValue(0))
            ELSE IF ~FloatOf(s).ok THEN fails("ValueError")
            ELSE IF FloatOf(s).n = Inf THEN fails("OverflowError")
            ELSE ok(IntValue(FloatOf(s).n))
        ELSE IF type = "number" THEN
            IF Strip(s) = "" THEN ok(FloatValue(0))
            ELSE IF ~FloatOf(s).ok THEN fails("ValueError")
            ELSE ok(FloatValue(FloatOf(s).n))
        ELSE ok(StrValue(s))

\* Variant of ArgIndex: the offset of the radios is forgotten.
ArgIndexWithoutOffset(type, i) == i

\* Lines 194-199: the position in *args the value of parameter i is read from.
ArgIndex(type, i) == IF IsBoolean(type) THEN num_text_inputs + i ELSE i

\* Lines 202-206: an empty value of an optional parameter is left out.
is_optional_and_empty(param, arg_value_from_ui) ==
    /\ param.type # "boolean"
    /\ Strip(arg_value_from_ui) = ""
    /\ ~param.required

\* Lines 186-226: the loop over the parameters from index i on, with the
\* tool_args built and the positions of *args read so far.
RECURSIVE ConvertParams(_, _, _, _, _)
ConvertParams(tool, args, i, tool_args, read) ==
    IF i >= NumParams(tool) \/ i >= 8
    THEN [status |-> "ok", tool_args |-> tool_args, read |-> read, param |-> ""]
    ELSE
        LET param == ParamOf(tool, i)
            index == ArgIndex(param.type, i)
            arg_value_from_ui == args[index]
            read2 == Append(read, index)
            conv == ConvertValue(param.type, arg_value_from_ui)
        IN  IF is_optional_and_empty(param, arg_value_from_ui)
            THEN ConvertParams(tool, args, i + 1, tool_args, read2)
            ELSE IF conv.status # "ok"
            THEN [status |-> conv.status, tool_args |-> tool_args,
                  read |-> read2, param |-> param.name]
            ELSE ConvertParams(tool, args, i + 1,
                               Append(tool_args, [name |-> param.name,
                                                  value |-> conv.value]),
                               read2)

\* How a function ends: with a returned value, or with an exception that leaves it.
Returned(value) == [kind |-> "returned", value |-> value]

Raised(exception) == [kind |-> "raised", value |-> [exception |-> exception]]

\* A message built from a fixed text and what it is about.
Message(text, about) == [text |-> text, about |-> about]

\* The exception classes of the model that derive from Exception: what
\* 'except Exception' (lines 73 and 232) catches.
ExceptionClasses == {"ToolError", "ValueError", "OverflowError"}

\* Line 73: except Exception.
CaughtAsException(exception) == exception \in ExceptionClasses

\* Line 225: except (ValueError, json.JSONDecodeError).
CaughtAtConversion(exception) == exception = "ValueError"

\* The names of the items of an argument map.
ArgNames(tool_args) == { tool_args[k].name : k \in 1..Len(tool_args) }

\* Line 70: how mcp.call_tool(tool_name, tool_args) can end.  A name of no tool
\* and a missing required argument are rejected with ToolError; otherwise the
\* tool runs and returns, or fails, which reaches the caller as ToolError.
ToolOutcomes(tool_name, tool_args) ==
    IF tool_name \notin ToolNames THEN {"ToolError"}
    ELSE IF \E k \in 1..NumParams(tool_name) :
                /\ ParamOf(tool_name, k - 1).required
                /\ ParamOf(tool_name, k - 1).name \notin ArgNames(tool_args)
    THEN {"ToolError"}
    ELSE {"returns", "ToolError"}

\* The value a tool returns for its arguments.
ToolResult(tool_name, tool_args) == [tool_name |-> tool_name, tool_args |-> tool_args]

\* Variant of call_tool_sync: the handler catches ValueError only, as the
\* conversion of a parameter does.
call_tool_sync_catches_value_error(tool_name, tool_args, outcome) ==
    IF outcome = "returns"
    THEN Returned([success |-> TRUE, result |-> ToolResult(tool_name, tool_args)])
    ELSE IF CaughtAtConversion(outcome)
    THEN Returned([success |-> FALSE,
                   error |-> Message("Error calling tool", tool_name)])
    ELSE Raised(outcome)

\* Lines 66-76.
call_tool_sync(tool_name, tool_args, outcome) ==
    IF outcome = "returns"
    THEN Returned([success |-> TRUE, result |-> ToolResult(tool_name, tool_args)])
    ELSE IF CaughtAsException(outcome)
    THEN Returned([success |-> FALSE,
                   error |-> Message("Error calling tool", tool_name)])
    ELSE Raised(outcome)

\* Lines 168-233: what run_selected_tool returns, the call of call_tool_sync it
\* makes and the positions of *args it reads.  outcome is how the tool call
\* ends if it is made.
run_selected_tool(selected_tool_name, args, outcome) ==
    LET tool == get_tool_by_display_name(selected_tool_name)
        conv == ConvertParams(tool, args, 0, << >>, << >>)
        called == call_tool_sync(tool, conv.tool_args, outcome)
        ends(output, invoked, read) ==
            [output |-> output, invoked |-> invoked, read |-> read]
    IN  IF NotSelected(selected_tool_name)
        THEN ends(Returned([error |-> Message("No tool selected", "")]),
                  NotInvoked, << >>)
        ELSE IF tool = "None"
        THEN ends(Returned([error |-> Message("Tool not found", selected_tool_name)]),
                  NotInvoked, << >>)
        ELSE IF conv.status = "ok"
        THEN ends(IF called.kind = "raised" /\ CaughtAsException(called.value.exception)
                  THEN Returned([error |-> Message("Error executing tool",
                                                   called.value.exception)])
                  ELSE called,
                  Invoked(tool, conv.tool_args), conv.read)
        ELSE IF CaughtAtConversion(conv.status)
        THEN ends(Returned([error |-> Message("Invalid value for parameter", conv.param)]),
                  NotInvoked, conv.read)
        ELSE IF CaughtAsException(conv.status)
        THEN ends(Returned([error |-> Message("Error executing tool", conv.status)]),
                  NotInvoked, conv.read)
        ELSE ends(Raised(conv.status), NotInvoked, conv.read)

\* A caller makes its calls one after the other: call c starts when every
\* earlier call has ended.
MayStart(c) ==
    /\ calls[c].pc = "idle"
    /\ \A d \in CallIds : d < c => calls[d].pc \in {"done", "raised"}

\* Entry with a price float() accepts (lines 220-245).
Enter(c) ==
    /\ MayStart(c)
    /\ \E arg \in PriceArgs, ftb \in BOOLEAN, add \in BOOLEAN :
          /\ arg.numeric
          /\ calls' = [calls EXCEPT ![c] = EnterFrame(arg, ftb, add)]
          /\ UNCHANGED ui

\* Entry with a price float() rejects (line 220 raises ValueError).
EnterRaises(c) ==
    /\ MayStart(c)
    /\ \E arg \in PriceArgs, ftb \in BOOLEAN, add \in BOOLEAN :
          /\ ~arg.numeric
          /\ calls' = [calls EXCEPT ![c] = RaisedFrame(arg, ftb, add)]
          /\ UNCHANGED ui

\* Lines 248-249: the loop is left before band i.
LoopBreak(c) ==
    /\ calls[c].pc = "loop"
    /\ NothingLeft(calls[c])
    /\ calls' = [calls EXCEPT ![c] = LoopIteration(calls[c])]
    /\ UNCHANGED ui

\* Lines 252-278: band i is taxed.
LoopStep(c) ==
    /\ calls[c].pc = "loop"
    /\ ~NothingLeft(calls[c])
    /\ calls' = [calls EXCEPT ![c] = LoopIteration(calls[c])]
    /\ UNCHANGED ui

\* Lines 280-286.
Return(c) ==
    /\ calls[c].pc = "return"
    /\ calls' = [calls EXCEPT ![c].pc = "done",
                              ![c].result = ReturnValue(calls[c])]
    /\ UNCHANGED ui

Init ==
    /\ calls = [c \in CallIds |-> IdleFrame]
    /\ ui = InitialUi

Next ==
    \E c \in CallIds :
        \/ Enter(c)
        \/ EnterRaises(c)
        \/ LoopBreak(c)
        \/ LoopStep(c)
        \/ Return(c)

Spec == Init /\ [][Next]_vars

\* One call on its own.  The call is synchronous: once entered it runs to its
\* return without waiting for anything, which is the weak fairness of its steps.
NextOne ==
    \/ Enter(1)
    \/ EnterRaises(1)
    \/ LoopBreak(1)
    \/ LoopStep(1)
    \/ Return(1)

TermSpec == Init /\ [][NextOne]_vars /\ WF_vars(NextOne)

\* Concurrent calls: a call may be entered while another is in its loop, and the
\* steps of the calls interleave in any order.  Prices: 0 and every threshold,
\* each with the penny below and the penny above.
ConcPriceArgs ==
    { [numeric |-> TRUE, value |-> t + d] :
          t \in FiniteThresholds \cup {0}, d \in {0 - 1, 0, 1} } \cup
    { [numeric |-> FALSE, value |-> 0] }

EnterConcurrently(c) ==
    /\ calls[c].pc = "idle"
    /\ \E arg \in ConcPriceArgs, ftb \in BOOLEAN, add \in BOOLEAN :
          /\ arg.numeric
          /\ calls' = [calls EXCEPT ![c] = EnterFrame(arg, ftb, add)]
          /\ UNCHANGED ui

EnterRaisesConcurrently(c) ==
    /\ calls[c].pc = "idle"
    /\ \E arg \in ConcPriceArgs, ftb \in BOOLEAN, add \in BOOLEAN :
          /\ ~arg.numeric
          /\ calls' = [calls EXCEPT ![c] = RaisedFrame(arg, ftb, add)]
          /\ UNCHANGED ui

NextConc ==
    \E c \in CallIds :
        \/ EnterConcurrently(c)
        \/ EnterRaisesConcurrently(c)
        \/ LoopBreak(c)
        \/ LoopStep(c)
        \/ Return(c)

ConcSpec == Init /\ [][NextConc]_vars

\* ------------------------------------------------------- the form in use

\* What a user types into a textbox: nothing, a number, a text that is no number.
TypedValues == {"", "12", "abc"}

\* What a caller of the handler may pass for a textbox: these, and blanks, a
\* zero, an infinity.
TextValues == TypedValues \cup {" ", "0", "inf"}

\* What a radio yields: one of its choices, or None while nothing is chosen.
RadioChoices == {"True", "False"}

RadioValues == RadioChoices \cup {"None"}

\* Line 301: the inputs of the click handler, the 8 textboxes then the 8 radios.
WidgetArgs(u) ==
    [k \in 0..15 |-> IF k < num_text_inputs
                     THEN u.text_value[k]
                     ELSE u.radio_value[k - num_text_inputs]]

\* The page after run_selected_tool has been called with these inputs and the
\* tool call, if made, has ended with outcome.
AfterRun(u, selected_tool_name, args, outcome) ==
    LET r == run_selected_tool(selected_tool_name, args, outcome)
    IN  [ u EXCEPT !.last = "run_selected_tool",
                   !.selected = selected_tool_name,
                   !.args = args,
                   !.read = r.read,
                   !.invoked = r.invoked,
                   !.tool_outcome = IF r.invoked.called THEN outcome ELSE "none",
                   !.output = r.output ]

\* outcome is a way the tool call of this run can end (the one way the model
\* names when no tool call is made).
OutcomeOfRun(selected_tool_name, args, outcome) ==
    LET r == run_selected_tool(selected_tool_name, args, "ToolError")
    IN  IF r.invoked.called
        THEN outcome \in ToolOutcomes(r.invoked.tool_name, r.invoked.tool_args)
        ELSE outcome = "ToolError"

\* Lines 293-297: the user picks another tool in the dropdown and the change
\* handler, update_tool_interface, redraws the form.
SelectTool ==
    \E d \in DisplayNames :
        /\ d # ui.tool_dropdown
        /\ ui.steps < MaxUserSteps
        /\ ui' = [update_tool_interface(ui, d) EXCEPT !.tool_dropdown = d,
                                                      !.steps = @ + 1]
        /\ UNCHANGED calls

\* The user types into a textbox that is shown.
EditText ==
    \E i \in Slots, v \in TypedValues :
        /\ ui.text_visible[i]
        /\ ui.steps < MaxUserSteps
        /\ v # ui.text_value[i]
        /\ ui' = [ui EXCEPT !.text_value[i] = v, !.steps = @ + 1]
        /\ UNCHANGED calls

\* The user chooses in a radio that is shown.
PickRadio ==
    \E i \in Slots, v \in RadioChoices :
        /\ ui.radio_visible[i]
        /\ ui.steps < MaxUserSteps
        /\ v # ui.radio_value[i]
        /\ ui' = [ui EXCEPT !.radio_value[i] = v, !.steps = @ + 1]
        /\ UNCHANGED calls

\* Lines 299-303: the user clicks the run button, which is shown; the click
\* handler, run_selected_tool, gets the dropdown and the 16 widgets.
ClickRun ==
    /\ ui.run_button
    /\ \E outcome \in {"returns", "ToolError"} :
          /\ OutcomeOfRun(ui.tool_dropdown, WidgetArgs(ui), outcome)
          /\ ui' = AfterRun(ui, ui.tool_dropdown, WidgetArgs(ui), outcome)
    /\ UNCHANGED calls

NextUi ==
    \/ SelectTool
    \/ EditText
    \/ PickRadio
    \/ ClickRun

UiSpec == Init /\ [][NextUi]_vars

\* The handlers called directly, with any inputs (every event handler is also
\* an endpoint of the served app).  For a tool, the values of the positions of
\* *args its parameters are read from vary; the other positions hold what an
\* untouched widget holds.  The handlers read nothing but their inputs, so each
\* call is made on the page as built.
NumericSlots(tool) ==
    { i \in Slots : i < NumParams(tool)
                      /\ ParamOf(tool, i).type \in {"integer", "number"} }

StringSlots(tool) ==
    { i \in Slots : i < NumParams(tool) /\ ParamOf(tool, i).type = "string" }

RadioSlots(tool) ==
    { i \in Slots : i < NumParams(tool) /\ IsBoolean(ParamOf(tool, i).type) }

UntouchedArgs == [k \in 0..15 |-> IF k < num_text_inputs THEN "" ELSE "None"]

DirectArgs(selected_tool_name) ==
    LET tool == get_tool_by_display_name(selected_tool_name)
    IN  IF tool = "None" THEN { UntouchedArgs }
        ELSE { [k \in 0..15 |->
                   IF k \in NumericSlots(tool) THEN n[k]
                   ELSE IF k \in StringSlots(tool) THEN t[k]
                   ELSE IF k >= num_text_inputs /\ (k - num_text_inputs) \in RadioSlots(tool)
                        THEN r[k - num_text_inputs]
                   ELSE UntouchedArgs[k]] :
                 n \in [NumericSlots(tool) -> TextValues],
                 t \in [StringSlots(tool) -> {"", "abc"}],
                 r \in [RadioSlots(tool) -> RadioValues] }

\* The argument maps call_tool_sync is called with directly: an empty map, and
\* the maps the form can build.
DirectToolArgs(tool_name) ==
    IF tool_name \notin ToolNames THEN { << >> }
    ELSE { << >> } \cup
         { ConvertParams(tool_name, a, 0, << >>, << >>).tool_args :
               a \in { b \in DirectArgs(DisplayName(tool_name)) :
                         ConvertParams(tool_name, b, 0, << >>, << >>).status = "ok" } }

CallRunSelectedTool ==
    /\ ui.last = "none"
    /\ \E selected_tool_name \in SelectedNames :
        \E args \in DirectArgs(selected_tool_name), outcome \in {"returns", "ToolError"} :
            /\ OutcomeOfRun(selected_tool_name, args, outcome)
            /\ ui' = AfterRun(ui, selected_tool_name, args, outcome)
    /\ UNCHANGED calls

CallToolSync ==
    /\ ui.last = "none"
    /\ \E tool_name \in ToolNames \cup {"stamp_duty"} :
        \E tool_args \in DirectToolArgs(tool_name) :
            \E outcome \in ToolOutcomes(tool_name, tool_args) :
                /\ ui' = [ ui EXCEPT !.last = "call_tool_sync",
                                     !.selected = "None",
                                     !.args = UntouchedArgs,
                                     !.read = << >>,
                                     !.invoked = Invoked(tool_name, tool_args),
                                     !.tool_outcome = outcome,
                                     !.output = call_tool_sync(tool_name, tool_args, outcome) ]
    /\ UNCHANGED calls

NextDirect ==
    \/ CallRunSelectedTool
    \/ CallToolSync

DirectSpec == Init /\ [][NextDirect]_vars

\* ----------------------------------------------------------------- claims

Done(c) == calls[c].pc = "done"

Res(c) == calls[c].result

RECURSIVE SumAmount(_)
SumAmount(bd) == IF bd = << >> THEN 0 ELSE Head(bd).amount + SumAmount(Tail(bd))

RECURSIVE SumDuty(_)
SumDuty(bd) == IF bd = << >> THEN 0 ELSE Head(bd).duty + SumDuty(Tail(bd))

\* Two finished calls with the same price.
BothDone(c, d) == c # d /\ Done(c) /\ Done(d)

\* C1: for every price >= 0 and every flag combination the amounts of the
\* breakdown add up to the price.
C1_Conservation ==
    \A c \in CallIds :
        Done(c) /\ Res(c).property_price >= 0 =>
            SumAmount(Res(c).breakdown) = Res(c).property_price

C1_Witness ==
    \E c \in CallIds :
        /\ Done(c)
        /\ Len(Res(c).breakdown) >= 3
        /\ Res(c).property_price % 100 # 0
        /\ SumAmount(Res(c).breakdown) = Res(c).property_price

\* C2: a call with a negative price fails (InvalidInput) and returns no result;
\* in particular it never returns total 0 with an empty breakdown.
C2_NegativePriceRejected ==
    \A c \in CallIds :
        calls[c].arg.numeric /\ calls[c].arg.value < 0 =>
            /\ calls[c].pc # "done"
            /\ Res(c).kind # "result"

\* The table the specification prescribes for a flag and a price.
ClaimedTable(ftb, price) ==
    IF ftb = TRUE /\ price <= Pounds(500000)
    THEN first_time_buyer_bands
    ELSE standard_bands

\* The lower edge of band k of a table.
LowerEdge(table, k) == IF k = 1 THEN 0 ELSE table[k - 1].threshold

Surcharge(add) == IF add THEN 5 ELSE 0

\* C3: the first-time-buyer table is the one taxed with exactly when the flag
\* is set and the price is at most 500000, whatever is_additional_property is:
\* the table chosen is that one, and every breakdown entry carries the edges and
\* the rate of its band in that table.
C3_TableSelection ==
    \A c \in CallIds :
        calls[c].pc \in {"loop", "return", "done"} =>
            LET f == calls[c]
                t == ClaimedTable(f.is_first_time_buyer, f.property_price)
            IN  /\ f.bands = t
                /\ (f.bands = first_time_buyer_bands) <=>
                       (f.is_first_time_buyer /\ f.property_price <= Pounds(500000))
                /\ \A k \in 1..Len(f.breakdown) :
                       /\ f.breakdown[k].band_lo = LowerEdge(t, k)
                       /\ f.breakdown[k].band_hi = Min(t[k].threshold, f.property_price)
                       /\ f.breakdown[k].rate = t[k].rate + Surcharge(f.is_additional_property)

C3_Witness ==
    \E c \in CallIds :
        /\ Done(c)
        /\ calls[c].is_first_time_buyer
        /\ calls[c].property_price = Pounds(500000)
        /\ calls[c].bands = first_time_buyer_bands
        /\ Len(Res(c).breakdown) = 2
        /\ Res(c).breakdown[2].band_lo = Pounds(300000)

\* C4 (as stated): above 500000 the call with the flag set returns the same
\* result as the call with the flag clear.
C4_FallbackSameResult ==
    \A c, d \in CallIds :
        /\ BothDone(c, d)
        /\ Res(c).property_price > Pounds(500000)
        /\ Res(c).property_price = Res(d).property_price
        /\ calls[c].is_first_time_buyer /\ ~calls[d].is_first_time_buyer
        /\ calls[c].is_additional_property = calls[d].is_additional_property
        => Res(c) = Res(d)

\* C4 (amended): above 500000 the two results agree in total_stamp_duty,
\* property_price, is_additional_property and breakdown; is_first_time_buyer
\* differs, each result repeating the flag it was called with.
C4_FallbackSameTax ==
    \A c, d \in CallIds :
        /\ BothDone(c, d)
        /\ Res(c).property_price > Pounds(500000)
        /\ Res(c).property_price = Res(d).property_price
        /\ calls[c].is_first_time_buyer /\ ~calls[d].is_first_time_buyer
        /\ calls[c].is_additional_property = calls[d].is_additional_property
        => /\ Res(c).total_stamp_duty = Res(d).total_stamp_duty
           /\ Res(c).breakdown = Res(d).breakdown
           /\ Res(c).property_price = Res(d).property_price
           /\ Res(c).is_additional_property = Res(d).is_additional_property
           /\ Res(c).is_first_time_buyer = TRUE
           /\ Res(d).is_first_time_buyer = FALSE

C4_Witness ==
    \E c, d \in CallIds :
        /\ BothDone(c, d)
        /\ Res(c).property_price = Pounds(500000) + 1
        /\ Res(d).property_price = Res(c).property_price
        /\ calls[c].is_first_time_buyer /\ ~calls[d].is_first_time_buyer
        /\ calls[c].is_additional_property /\ calls[d].is_additional_property
        /\ Len(Res(c).breakdown) = 3
        /\ Res(c).breakdown = Res(d).breakdown

\* The two totals of a pair of calls that differ in is_additional_property only,
\* c with the surcharge and d without: their difference in 1/100 pence.
SurchargePaid(c, d) == (Res(c).total_stamp_duty - Res(d).total_stamp_duty) * 100

SurchargePair(c, d) ==
    /\ BothDone(c, d)
    /\ Res(c).property_price >= 0
    /\ Res(c).property_price = Res(d).property_price
    /\ calls[c].is_first_time_buyer = calls[d].is_first_time_buyer
    /\ calls[c].is_additional_property /\ ~calls[d].is_additional_property

\* C5 (as stated): for every price >= 0 the total with the surcharge minus the
\* total without it is price * 0.05.
C5_SurchargeIsFivePercent ==
    \A c, d \in CallIds :
        SurchargePair(c, d) => SurchargePaid(c, d) = Res(c).property_price * 5

\* C5 (amended): the difference is price * 0.05 when the price is a whole number
\* of pounds; for a price with pence both totals are rounded to 2 decimals and
\* the difference is within one penny of price * 0.05.
C5_SurchargeWithinAPenny ==
    \A c, d \in CallIds :
        SurchargePair(c, d) =>
            LET exact == Res(c).property_price * 5
            IN  /\ Res(c).property_price % 100 = 0 => SurchargePaid(c, d) = exact
                /\ SurchargePaid(c, d) - exact <= 100
                /\ exact - SurchargePaid(c, d) <= 100

C5_Witness ==
    \E c, d \in CallIds :
        /\ SurchargePair(c, d)
        /\ calls[c].is_first_time_buyer
        /\ Res(c).property_price = Pounds(300001)
        /\ SurchargePaid(c, d) = Pounds(300001) * 5
        /\ Len(Res(c).breakdown) = 2

\* C6: with both flags fixed the total does not decrease when the price grows,
\* also across the 500000 limit of a first-time buyer.
C6_Monotone ==
    \A c, d \in CallIds :
        /\ BothDone(c, d)
        /\ calls[c].is_first_time_buyer = calls[d].is_first_time_buyer
        /\ calls[c].is_additional_property = calls[d].is_additional_property
        /\ 0 <= Res(c).property_price
        /\ Res(c).property_price <= Res(d).property_price
        => Res(c).total_stamp_duty <= Res(d).total_stamp_duty

C6_Witness ==
    \E c, d \in CallIds :
        /\ BothDone(c, d)
        /\ calls[c].is_first_time_buyer /\ calls[d].is_first_time_buyer
        /\ calls[c].is_additional_property = calls[d].is_additional_property
        /\ Res(c).property_price = Pounds(500000)
        /\ Res(d).property_price = Pounds(500000) + 1
        /\ calls[c].bands = first_time_buyer_bands
        /\ calls[d].bands = standard_bands
        /\ Res(c).total_stamp_duty < Res(d).total_stamp_duty

\* C7: for every price >= 0 the total is the sum of the 'duty' fields rounded to
\* 2 decimals once (the nearest penny to the sum, and the sum itself when it is
\* whole pence), and no 'duty' is rounded: each is exactly its amount times its
\* rate, fractions of a penny kept.
C7_RoundedOnce ==
    \A c \in CallIds :
        Done(c) /\ Res(c).property_price >= 0 =>
            LET bd == Res(c).breakdown
                s  == SumDuty(bd)
                t  == Res(c).total_stamp_duty * 100
            IN  /\ t - s <= 50
                /\ s - t <= 50
                /\ s % 100 = 0 => t = s
                /\ s = calls[c].stamp_duty
                /\ \A k \in 1..Len(bd) : bd[k].duty = bd[k].amount * bd[k].rate

C7_Witness ==
    \E c \in CallIds :
        /\ Done(c)
        /\ Len(Res(c).breakdown) >= 2
        /\ SumDuty(Res(c).breakdown) % 100 > 50
        /\ Res(c).total_stamp_duty * 100 > SumDuty(Res(c).breakdown)
        /\ \E k \in 1..Len(Res(c).breakdown) : Res(c).breakdown[k].duty % 100 # 0

\* C8: with is_additional_property every entry's duty is amount * (band rate +
\* 0.05) and its displayed rate the band's percent rate plus 5; without it the
\* duty is amount * band rate and the displayed rate the band's percent rate.
\* The surcharge is charged on each slice: the unrounded total is the sum of the
\* entries' duties and holds no surcharge charged apart.
C8_SurchargePerBand ==
    \A c \in CallIds :
        Done(c) =>
            LET f  == calls[c]
                bd == Res(c).breakdown
            IN  /\ \A k \in 1..Len(bd) :
                       IF f.is_additional_property
                       THEN /\ bd[k].duty = bd[k].amount * (f.bands[k].rate + 5)
                            /\ bd[k].rate = f.bands[k].rate + 5
                       ELSE /\ bd[k].duty = bd[k].amount * f.bands[k].rate
                            /\ bd[k].rate = f.bands[k].rate
                /\ f.stamp_duty = SumDuty(bd)

C8_Witness ==
    \E c \in CallIds :
        /\ Done(c)
        /\ calls[c].is_additional_property
        /\ Len(Res(c).breakdown) = 5
        /\ Res(c).breakdown[5].rate = 17
        /\ Res(c).breakdown[5].duty = Res(c).breakdown[5].amount * 17

\* C9: for price 0 and every flag combination the total is 0 and the breakdown
\* is empty.
C9_ZeroPrice ==
    \A c \in CallIds :
        Done(c) /\ calls[c].arg.value = 0 =>
            /\ Res(c).total_stamp_duty = 0
            /\ Res(c).breakdown = << >>

C9_Witness ==
    \E c, d \in CallIds :
        /\ BothDone(c, d)
        /\ calls[c].arg.value = 0 /\ calls[d].arg.value = 0
        /\ calls[c].is_first_time_buyer /\ calls[c].is_additional_property
        /\ ~calls[d].is_first_time_buyer /\ ~calls[d].is_additional_property
        /\ Res(c).kind = "result" /\ Res(d).kind = "result"

\* The finite upper bounds of the bands of a table.
UpperBounds(table) == { table[k].threshold : k \in 1..(Len(table) - 1) }

\* C10: when the price is the upper bound T of a band of the active table, the
\* whole price lies in the bands up to T: the last entry is the band ending at
\* T, every entry is a non-empty slice below T, and the band starting at T has
\* no entry.
C10_BoundaryInLowerBand ==
    \A c \in CallIds :
        Done(c) /\ Res(c).property_price \in UpperBounds(calls[c].bands) =>
            LET f  == calls[c]
                bd == Res(c).breakdown
                T  == Res(c).property_price
                n  == Len(bd)
            IN  /\ n >= 1
                /\ f.bands[n].threshold = T
                /\ bd[n].band_hi = T
                /\ bd[n].band_lo = LowerEdge(f.bands, n)
                /\ bd[n].amount = T - LowerEdge(f.bands, n)
                /\ SumAmount(bd) = T
                /\ \A k \in 1..n : /\ bd[k].amount > 0
                                   /\ bd[k].band_lo < T
                                   /\ bd[k].band_hi <= T

C10_Witness ==
    \E c, d \in CallIds :
        /\ BothDone(c, d)
        /\ Res(c).property_price = Pounds(250000) /\ ~calls[c].is_first_time_buyer
        /\ Len(Res(c).breakdown) = 2
        /\ Res(c).breakdown[2].band_hi = Pounds(250000)
        /\ Res(d).property_price = Pounds(500000) /\ calls[d].is_first_time_buyer
        /\ Len(Res(d).breakdown) = 2
        /\ Res(d).breakdown[2].band_hi = Pounds(500000)

\* C11: the result repeats the price and the two flags it was called with; a
\* first-time buyer above 500000 is still reported as one although the standard
\* table was taxed with.
C11_EchoesInputs ==
    \A c \in CallIds :
        Done(c) =>
            /\ Res(c).property_price = calls[c].arg.value
            /\ Res(c).is_first_time_buyer = calls[c].is_first_time_buyer
            /\ Res(c).is_additional_property = calls[c].is_additional_property
            /\ (calls[c].is_first_time_buyer /\ calls[c].arg.value > Pounds(500000)
                    => Res(c).is_first_time_buyer = TRUE /\ calls[c].bands = standard_bands)

C11_Witness ==
    \E c \in CallIds :
        /\ Done(c)
        /\ calls[c].is_first_time_buyer
        /\ calls[c].arg.value = Pounds(925000)
        /\ calls[c].bands = standard_bands
        /\ Res(c).is_first_time_buyer = TRUE
        /\ Res(c).property_price = Pounds(925000)

\* The result as a function of the three arguments alone: one entry for each band
\* of the prescribed table that starts below the price, the slice of the price in
\* that band taxed at the band's rate plus the surcharge.
ExpectedBreakdown(price, ftb, add) ==
    LET t == ClaimedTable(ftb, price)
        n == Cardinality({ k \in 1..Len(t) : LowerEdge(t, k) < price })
    IN  [ k \in 1..n |->
            LET hi == Min(t[k].threshold, price)
                r  == t[k].rate + Surcharge(add)
            IN  [ band_lo |-> LowerEdge(t, k),
                  band_hi |-> hi,
                  amount  |-> hi - LowerEdge(t, k),
                  rate    |-> r,
                  duty    |-> (hi - LowerEdge(t, k)) * r ] ]

ExpectedResult(price, ftb, add) ==
    [ kind |-> "result",
      total_stamp_duty |-> Round2(SumDuty(ExpectedBreakdown(price, ftb, add))),
      property_price |-> price,
      is_first_time_buyer |-> ftb,
      is_additional_property |-> add,
      breakdown |-> ExpectedBreakdown(price, ftb, add) ]

SameArguments(c, d) ==
    /\ calls[c].arg = calls[d].arg
    /\ calls[c].is_first_time_buyer = calls[d].is_first_time_buyer
    /\ calls[c].is_additional_property = calls[d].is_additional_property

\* C12: the result is determined by the three arguments: two calls with the same
\* arguments return the same result, and a call returns the same result whether
\* it is the first call or follows another call with any arguments.
C12_Deterministic ==
    /\ \A c, d \in CallIds :
           BothDone(c, d) /\ SameArguments(c, d) => Res(c) = Res(d)
    /\ \A c \in CallIds :
           Done(c) =>
               Res(c) = ExpectedResult(calls[c].arg.value,
                                       calls[c].is_first_time_buyer,
                                       calls[c].is_additional_property)

C12_Witness ==
    \E c, d \in CallIds :
        /\ BothDone(c, d)
        /\ SameArguments(c, d)
        /\ calls[c].arg.value = Pounds(925000) + 1
        /\ calls[c].is_additional_property
        /\ Len(Res(c).breakdown) = 4
        /\ Res(c) = Res(d)

\* C13: for every price float() accepts and every flag combination the loop is in
\* its i-th iteration with i at most the number of bands of the table (5), the
\* call does not fail, and a call in its loop always comes to return a result: it
\* does not stay in the loop, on the unbounded top band or elsewhere.
C13_Terminates ==
    /\ [](\A c \in CallIds :
            /\ calls[c].pc = "loop" =>
                  calls[c].i \in 1..Len(calls[c].bands) /\ Len(calls[c].bands) = 5
            /\ calls[c].arg.numeric => calls[c].pc # "raised")
    /\ \A c \in CallIds :
          (calls[c].pc = "loop") ~> (calls[c].pc = "done" /\ Res(c).kind = "result")

C13_Witness ==
    \E c \in CallIds :
        /\ Done(c)
        /\ calls[c].i = 5
        /\ calls[c].bands[5].threshold = Inf
        /\ Len(Res(c).breakdown) = 5
        /\ Res(c).kind = "result"

\* C14: with the steps of two calls interleaved in any order, each call computes
\* what it computes alone: at every step its table is the one prescribed for its
\* own arguments, its breakdown is the beginning of the breakdown of its own
\* arguments, its accumulator holds the duties of its own entries, and its result
\* is the result of its own arguments.
C14_Isolated ==
    \A c \in CallIds :
        calls[c].pc \in {"loop", "return", "done"} =>
            LET f   == calls[c]
                exp == ExpectedResult(f.arg.value, f.is_first_time_buyer,
                                      f.is_additional_property)
            IN  /\ f.bands = ClaimedTable(f.is_first_time_buyer, f.arg.value)
                /\ Len(f.breakdown) <= Len(exp.breakdown)
                /\ \A k \in 1..Len(f.breakdown) : f.breakdown[k] = exp.breakdown[k]
                /\ f.stamp_duty = SumDuty(f.breakdown)
                /\ f.pc \in {"return", "done"} => f.breakdown = exp.breakdown
                /\ f.pc = "done" => f.result = exp

\* Both calls are in their loops at once, each past its first band, with
\* different arguments.
C14_Witness ==
    /\ calls[1].pc = "loop" /\ calls[2].pc = "loop"
    /\ calls[1].i = 3 /\ calls[2].i = 2
    /\ calls[1].arg.value = Pounds(1500000) + 1
    /\ calls[2].arg.value = Pounds(500000)
    /\ calls[1].is_additional_property /\ calls[2].is_first_time_buyer
    /\ Len(calls[1].breakdown) = 2 /\ Len(calls[2].breakdown) = 1

\* The band of a table that ends at T.
BandEndingAt(table, T) == CHOOSE k \in 1..Len(table) : table[k].threshold = T

ResultFields ==
    { "kind", "total_stamp_duty", "property_price", "is_first_time_buyer",
      "is_additional_property", "breakdown" }

\* C16: a call ends in one of two ways.  It returns a result that holds all five
\* fields; or it fails at the conversion of the price, with no accumulator
\* created or changed and no band visited.  Nothing is returned before the end,
\* and a call that has entered its loop never fails.
C16_NoPartialCompletion ==
    /\ [](\A c \in CallIds :
            /\ calls[c].pc = "done" =>
                  /\ Res(c).kind = "result"
                  /\ DOMAIN Res(c) = ResultFields
            /\ calls[c].pc = "raised" =>
                  /\ ~calls[c].arg.numeric
                  /\ Res(c).kind = "ValueError"
                  /\ calls[c].stamp_duty = 0
                  /\ calls[c].breakdown = << >>
                  /\ calls[c].bands = << >>
                  /\ calls[c].i = 0
            /\ calls[c].pc \in {"loop", "return"} => Res(c) = NoResult)
    /\ [][\A c \in CallIds :
            calls[c].pc \in {"loop", "return", "done"} => calls'[c].pc # "raised"]_vars

C16_Witness ==
    \E c, d \in CallIds :
        /\ calls[c].pc = "raised" /\ ~calls[c].arg.numeric
        /\ calls[c].breakdown = << >>
        /\ Done(d) /\ DOMAIN Res(d) = ResultFields
        /\ Len(Res(d).breakdown) = 5

\* A duty of n pounds in the unit of the unrounded duties (1/100 penny).
DutyPounds(n) == Pounds(n) * 100

\* C17: for a price of 300000 pounds with both flags false the breakdown has
\* exactly three entries, in this order: 125000 at 0% with duty 0, 125000 at 2%
\* with duty 2500, 50000 at 5% with duty 2500; the total is 5000.
C17_WorkedExample ==
    \A c \in CallIds :
        ( /\ Done(c)
          /\ calls[c].arg.value = Pounds(300000)
          /\ ~calls[c].is_first_time_buyer
          /\ ~calls[c].is_additional_property )
        => /\ Res(c).kind = "result"
           /\ Len(Res(c).breakdown) = 3
           /\ Res(c).breakdown[1].amount = Pounds(125000)
           /\ Res(c).breakdown[1].rate = 0
           /\ Res(c).breakdown[1].duty = 0
           /\ Res(c).breakdown[2].amount = Pounds(125000)
           /\ Res(c).breakdown[2].rate = 2
           /\ Res(c).breakdown[2].duty = DutyPounds(2500)
           /\ Res(c).breakdown[3].amount = Pounds(50000)
           /\ Res(c).breakdown[3].rate = 5
           /\ Res(c).breakdown[3].duty = DutyPounds(2500)
           /\ Res(c).total_stamp_duty = Pounds(5000)

C17_Witness ==
    \E c \in CallIds :
        /\ Done(c)
        /\ calls[c].arg.value = Pounds(300000)
        /\ ~calls[c].is_first_time_buyer
        /\ ~calls[c].is_additional_property
        /\ Len(Res(c).breakdown) = 3
        /\ Res(c).total_stamp_duty = Pounds(5000)

\* The bands of a table whose lower edge lies strictly below a price.
BandsBelow(table, price) == { k \in 1..Len(table) : LowerEdge(table, k) < price }

\* C18: for every price > 0 the breakdown has exactly one entry for each band of
\* the active table whose lower edge is strictly below the price, in ascending
\* band order, each with an amount > 0; the bands whose lower edge is at or
\* above the price have no entry.
C18_OneEntryPerBandBelowPrice ==
    \A c \in CallIds :
        Done(c) /\ Res(c).property_price > 0 =>
            LET table == calls[c].bands
                price == Res(c).property_price
                bd    == Res(c).breakdown
            IN  /\ Len(bd) = Cardinality(BandsBelow(table, price))
                /\ \A k \in 1..Len(bd) :
                      /\ k \in BandsBelow(table, price)
                      /\ bd[k].band_lo = LowerEdge(table, k)
                      /\ bd[k].band_hi = Min(table[k].threshold, price)
                      /\ bd[k].amount > 0
                /\ \A k \in (Len(bd) + 1)..Len(table) :
                      /\ LowerEdge(table, k) >= price
                      /\ \A j \in 1..Len(bd) : bd[j].band_lo # LowerEdge(table, k)

C18_Witness ==
    \E c, d \in CallIds :
        /\ BothDone(c, d)
        /\ Res(c).property_price = Pounds(250000)
        /\ Len(Res(c).breakdown) = 2
        /\ Res(d).property_price = Pounds(250000) + 1
        /\ Len(Res(d).breakdown) = 3
        /\ calls[c].bands = standard_bands /\ calls[d].bands = standard_bands

\* C19: the entries of the breakdown tile [0, property_price] without gap or
\* overlap: the first lower bound is 0, each later lower bound is the upper
\* bound of the entry before, the last upper bound is the price, and each amount
\* is the upper bound minus the lower bound.  A price > 0 has at least one entry.
C19_EntriesTilePrice ==
    \A c \in CallIds :
        Done(c) =>
            LET price == Res(c).property_price
                bd    == Res(c).breakdown
            IN  /\ price > 0 => Len(bd) >= 1
                /\ bd # << >> =>
                      /\ bd[1].band_lo = 0
                      /\ bd[Len(bd)].band_hi = price
                /\ \A k \in 1..Len(bd) :
                      /\ bd[k].amount = bd[k].band_hi - bd[k].band_lo
                      /\ bd[k].band_lo < bd[k].band_hi
                      /\ k > 1 => bd[k].band_lo = bd[k - 1].band_hi

C19_Witness ==
    \E c, d \in CallIds :
        /\ BothDone(c, d)
        /\ Len(Res(c).breakdown) = 5
        /\ Res(c).breakdown[5].band_hi = Pounds(1500000) + 1
        /\ Res(c).breakdown[5].amount = 1
        /\ Len(Res(d).breakdown) = 2
        /\ Res(d).breakdown[2].band_lo = Pounds(300000)
        /\ Res(d).breakdown[2].band_hi = Pounds(500000)

\* The two tables as lines 221-235 write them.
InitialTables == { standard_bands, first_time_buyer_bands }

Running(c) == calls[c].pc \in {"loop", "return"}

\* C20: a call leaves the band tables as they were written: the table a call
\* works on holds its initial thresholds and rates at every step and after the
\* call, also when the surcharge is added to the rate an entry shows; and a call
\* starts from fresh accumulators, whatever a call before it computed.
C20_TablesUnchanged ==
    /\ [](\A c \in CallIds :
            Running(c) \/ Done(c) =>
                /\ calls[c].bands \in InitialTables
                /\ calls[c].bands = ClaimedTable(calls[c].is_first_time_buyer,
                                                 calls[c].property_price))
    /\ [][\A c \in CallIds :
            Running(c) => calls'[c].bands = calls[c].bands]_vars
    /\ [][\A c \in CallIds :
            calls[c].pc = "idle" /\ calls'[c].pc # "idle" /\ calls'[c].arg.numeric =>
                /\ calls'[c].pc = "loop"
                /\ calls'[c].stamp_duty = 0
                /\ calls'[c].breakdown = << >>
                /\ calls'[c].remaining_price = calls'[c].arg.value
                /\ calls'[c].previous_threshold = 0
                /\ calls'[c].i = 1
                /\ calls'[c].result = NoResult]_vars

C20_Witness ==
    \E c, d \in CallIds :
        /\ BothDone(c, d)
        /\ calls[c].is_additional_property
        /\ Len(Res(c).breakdown) = 5
        /\ Res(c).breakdown[5].rate = 17
        /\ calls[c].bands = standard_bands
        /\ calls[c].bands[5].rate = 12
        /\ calls[d].is_first_time_buyer
        /\ calls[d].bands = first_time_buyer_bands
        /\ Res(d).breakdown # << >>

\* C21: loop invariant for a price > 0.  At the start of every iteration
\* remaining_price = property_price - previous_threshold and remaining_price > 0;
\* after every iteration remaining_price >= 0.  So the exit 'remaining_price <= 0'
\* is taken only by a price <= 0, and a price > 0 leaves the loop through
\* 'threshold >= property_price', after taxing a band.
C21_LoopInvariant ==
    /\ [](\A c \in CallIds :
            calls[c].property_price > 0 =>
                /\ calls[c].pc = "loop" =>
                      /\ calls[c].remaining_price
                            = calls[c].property_price - calls[c].previous_threshold
                      /\ calls[c].remaining_price > 0
                /\ calls[c].pc \in {"return", "done"} =>
                      calls[c].remaining_price >= 0)
    /\ [][\A c \in CallIds :
            calls[c].pc = "loop" /\ calls'[c].pc = "return" =>
                IF calls[c].property_price > 0
                THEN /\ calls[c].remaining_price > 0
                     /\ calls[c].bands[calls[c].i].threshold >= calls[c].property_price
                     /\ calls'[c].previous_threshold = calls[c].bands[calls[c].i].threshold
                     /\ calls'[c].remaining_price >= 0
                ELSE /\ calls[c].remaining_price <= 0
                     /\ calls[c].i = 1
                     /\ calls'[c].breakdown = << >>]_vars

C21_Witness ==
    \E c, d \in CallIds :
        /\ c # d
        /\ Done(c) /\ calls[c].property_price = 0 /\ calls[c].i = 1
        /\ calls[d].pc = "loop"
        /\ calls[d].i = 4
        /\ calls[d].property_price = Pounds(925000) + 1
        /\ calls[d].previous_threshold = Pounds(925000)
        /\ calls[d].remaining_price = 1

\* Calls c and d differ in is_first_time_buyer only: c claims it, d does not.
FirstTimeBuyerPair(c, d) ==
    /\ BothDone(c, d)
    /\ calls[c].arg.value = calls[d].arg.value
    /\ calls[c].is_additional_property = calls[d].is_additional_property
    /\ calls[c].is_first_time_buyer
    /\ ~calls[d].is_first_time_buyer

\* C22: claiming first-time-buyer status never increases the duty: for every
\* price >= 0 and either value of is_additional_property, the total with the
\* flag set is at most the total with the flag clear.
C22_FirstTimeBuyerNeverPaysMore ==
    \A c, d \in CallIds :
        FirstTimeBuyerPair(c, d) /\ calls[c].arg.value >= 0 =>
            Res(c).total_stamp_duty <= Res(d).total_stamp_duty

C22_Witness ==
    \E c, d \in CallIds :
        /\ FirstTimeBuyerPair(c, d)
        /\ calls[c].arg.value = Pounds(500000)
        /\ calls[c].is_additional_property
        /\ calls[c].bands = first_time_buyer_bands
        /\ calls[d].bands = standard_bands
        /\ Res(c).total_stamp_duty = Pounds(35000)
        /\ Res(d).total_stamp_duty = Pounds(40000)

\* C23: whenever the first-time-buyer table is the active table, only its first
\* two bands (to 300000 at 0%, 300000 to 500000 at 5% before surcharge) receive
\* a slice: the loop never gets to a band above 500000 and the breakdown has at
\* most two entries, each of one of these two bands.
C23_FirstTimeBuyerUpperBandsUnreached ==
    \A c \in CallIds :
        calls[c].pc \in {"loop", "return", "done"}
        /\ calls[c].bands = first_time_buyer_bands =>
            /\ calls[c].i <= 2
            /\ Len(calls[c].breakdown) <= 2
            /\ \A k \in 1..Len(calls[c].breakdown) :
                  /\ calls[c].breakdown[k].band_lo = LowerEdge(first_time_buyer_bands, k)
                  /\ calls[c].breakdown[k].band_hi <= Pounds(500000)
                  /\ calls[c].breakdown[k].rate
                        = first_time_buyer_bands[k].rate
                          + Surcharge(calls[c].is_additional_property)
            /\ Done(c) => Len(Res(c).breakdown) <= 2

C23_Witness ==
    \E c \in CallIds :
        /\ Done(c)
        /\ calls[c].bands = first_time_buyer_bands
        /\ calls[c].arg.value = Pounds(500000)
        /\ calls[c].i = 2
        /\ Len(Res(c).breakdown) = 2
        /\ Res(c).breakdown[2].band_hi = Pounds(500000)

\* A call of call_tool_sync has been made and has ended: directly, or by
\* run_selected_tool, whose return value is then what call_tool_sync returned.
ToolCalled == ui.invoked.called

\* C24: call_tool_sync never raises to its caller: for every tool name and
\* argument map it returns {success: True, result} when the tool call
\* completes and {success: False, error} when the tool call raises, and no
\* value of another shape.
C24_CallToolSyncNeverRaises ==
    ToolCalled =>
        /\ ui.output.kind = "returned"
        /\ ui.tool_outcome = "returns" =>
              /\ DOMAIN ui.output.value = {"success", "result"}
              /\ ui.output.value.success = TRUE
              /\ ui.output.value.result
                    = ToolResult(ui.invoked.tool_name, ui.invoked.tool_args)
        /\ ui.tool_outcome # "returns" =>
              /\ DOMAIN ui.output.value = {"success", "error"}
              /\ ui.output.value.success = FALSE

C24_Witness ==
    /\ ui.last = "call_tool_sync"
    /\ ui.invoked.tool_name = "stamp_duty"
    /\ ui.tool_outcome = "ToolError"
    /\ ui.output.kind = "returned"
    /\ ui.output.value.success = FALSE

\* The texts that denote no value of a numeric schema type.  An integer
\* parameter takes the whole numbers and the empty text (0), a number parameter
\* also the infinity; any text is a string, any radio value a boolean.
Blank == {"", " "}

Unconvertible(type, text) ==
    \/ type = "integer" /\ text \notin Blank \cup {"0", "0.0", "12"}
    \/ type = "number" /\ text \notin Blank \cup {"0", "0.0", "12", "inf"}

\* The last call of run_selected_tool was for a loaded tool and the value of one
\* of its first 8 parameters cannot be converted.
SomeValueUnconvertible ==
    /\ ui.selected \in DisplayNames
    /\ \E name \in ToolNames :
          /\ DisplayName(name) = ui.selected
          /\ \E i \in 0..7 :
                /\ i < Len(ToolSchemas[name])
                /\ Unconvertible(ToolSchemas[name][i + 1].type, ui.args[i])

\* C25: if no tool is selected, the selected display name matches no loaded
\* tool, or the UI value of one of the tool's first 8 parameters cannot be
\* converted to the parameter's schema type, run_selected_tool returns an
\* {error: ...} value and does not call call_tool_sync.
C25_ErrorsCallNoTool ==
    ( /\ ui.last = "run_selected_tool"
      /\ \/ ui.selected \in {"None", ""}
         \/ ui.selected \notin DisplayNames
         \/ SomeValueUnconvertible )
    => /\ ui.output.kind = "returned"
       /\ DOMAIN ui.output.value = {"error"}
       /\ ~ui.invoked.called
       /\ ui.tool_outcome = "none"

C25_Witness ==
    /\ ui.last = "run_selected_tool"
    /\ ui.selected = "Monthly Payment"
    /\ ui.args[0] = "12"
    /\ ui.args[1] = "abc"
    /\ ui.read = << 0, 1 >>
    /\ DOMAIN ui.output.value = {"error"}
    /\ ui.output.value.error = Message("Invalid value for parameter", "number_of_years")
    /\ ~ui.invoked.called

\* The widget behind position k of *args (line 301) is shown.
WidgetShown(u, k) ==
    IF k < 8 THEN u.text_visible[k] ELSE u.radio_visible[k - 8]

\* The position of *args of the widget the form shows for parameter i of a
\* tool: radio i (position 8 + i) for a boolean, textbox i otherwise.
ShownPosition(name, i) ==
    IF ToolSchemas[name][i + 1].type \in {"boolean", "bool"} THEN 8 + i ELSE i

\* The form of the page is the form of this tool: for each of its first 8
\* parameters exactly the widget of ShownPosition is shown, and nothing else.
FormIsOf(u, name) ==
    \A k \in 0..15 :
        WidgetShown(u, k) <=>
            \E i \in 0..7 : i < Len(ToolSchemas[name]) /\ k = ShownPosition(name, i)

\* The step is a click on the run button.
RunStep == ui' # ui /\ ui'.steps = ui.steps

\* C26: the form shown and the form read agree.  While the run button is shown
\* the form is that of the tool in the dropdown; a click reads, for parameter
\* i < 8 of that tool, the widget the form shows for it (radio i for a boolean,
\* textbox i otherwise), so never a hidden widget; parameters from index 8 on
\* are neither shown nor read nor passed to the tool.
C26_FormShownIsFormRead ==
    /\ [](ui.run_button =>
            \E name \in ToolNames :
                /\ DisplayName(name) = ui.tool_dropdown
                /\ FormIsOf(ui, name))
    /\ [][RunStep =>
            \E name \in ToolNames :
                /\ DisplayName(name) = ui.tool_dropdown
                /\ ui'.selected = ui.tool_dropdown
                /\ ui'.args = WidgetArgs(ui)
                /\ Len(ui'.read) <= 8
                /\ \A k \in 1..Len(ui'.read) :
                      /\ ui'.read[k] = ShownPosition(name, k - 1)
                      /\ WidgetShown(ui, ui'.read[k])
                /\ ui'.invoked.called =>
                      /\ ui'.invoked.tool_name = name
                      /\ Len(ui'.read) = Cardinality({k \in 0..15 : WidgetShown(ui, k)})
                      /\ \A k \in 1..Len(ui'.invoked.tool_args) :
                            \E i \in 0..7 :
                                /\ i < Len(ToolSchemas[name])
                                /\ ui'.invoked.tool_args[k].name
                                      = ToolSchemas[name][i + 1].name]_vars

C26_Witness ==
    /\ ui.last = "run_selected_tool"
    /\ ui.run_button
    /\ ui.tool_dropdown = "Home Buying Tax Calculator Browser Use"
    /\ ui.selected = ui.tool_dropdown
    /\ ui.read = << 0, 1, 2, 3, 4, 5, 6, 15 >>
    /\ ui.radio_visible[7] /\ ~ui.text_visible[7]
    /\ ui.radio_value[7] = "True"
    /\ ui.invoked.called
    /\ Len(ui.invoked.tool_args) = 8
    /\ ui.invoked.tool_args[8] = [name |-> "more_properties", value |-> BoolValue(TRUE)]

=============================================================================
